---- MODULE Spec2Model ----
(***************************************************************************)
(* Model of the suffix-trie index: MemorySuffixTree (build, search,        *)
(* serialize_to_bytes, deserialize), SuffixTreeNode (serialize,            *)
(* deserialize_whole_tree, deserialize_with_offsets,                       *)
(* find_longest_child_string) and FileSuffixTree.search.                   *)
(*                                                                         *)
(* A tree is a function from paths (the string spelled from the root) to   *)
(* nodes [indexes, children]; children is the sequence of the dict's keys  *)
(* in insertion order.  Text positions and file offsets are 0-based as in  *)
(* the source; sequences are 1-based.                                      *)
(***************************************************************************)
EXTENDS Integers, Sequences, FiniteSets, TLC

\* ------------------------------------------------------------------ bounds
MaxLen == 3
MaxPat == 3
MaxTruncLen == 2
MaxTruncPat == 2

Alphabet == {"A", "C", "G"}
PatternAlphabet == {"A", "C", "G", "T"}

RECURSIVE SeqsUpTo(_, _)
SeqsUpTo(S, n) ==
    IF n = 0 THEN {<<>>}
    ELSE LET shorter == SeqsUpTo(S, n - 1)
         IN  shorter \cup {Append(s, c) : s \in {x \in shorter : Len(x) = n - 1}, c \in S}

\* the concrete scenario (main.py searches "GCAA") and a text whose file is
\* longer than 255 bytes, so that offsets need more than one byte
ScenarioText == <<"G", "C", "A", "A">>
ScenarioPatterns == {<<"G", "C", "A", "A">>, <<"C", "A">>, <<"A">>, <<"A", "T">>}
LongText == <<"G", "C", "A", "A", "C", "G">>

Texts == SeqsUpTo(Alphabet, MaxLen) \cup {ScenarioText, LongText}
Patterns == SeqsUpTo(PatternAlphabet, MaxPat) \cup ScenarioPatterns \cup {LongText}
TruncTexts == SeqsUpTo(Alphabet, MaxTruncLen)
TruncPatterns == SeqsUpTo(PatternAlphabet, MaxTruncPat)

\* ------------------------------------------------------------- primitives
None == << >>

Min(a, b) == IF a < b THEN a ELSE b

Range(s) == {s[i] : i \in 1..Len(s)}

\* str.encode("utf8") of a one-character string of the alphabet
Ord(c) ==
    CASE c = "A" -> 65
      [] c = "C" -> 67
      [] c = "G" -> 71
      [] c = "T" -> 84
      [] OTHER   -> 63

\* bytes.decode("utf8") of one byte
Chr(b) ==
    CASE b = 65 -> "A"
      [] b = 67 -> "C"
      [] b = 71 -> "G"
      [] b = 84 -> "T"
      [] OTHER  -> "?"

HEADER_LEN == 8
INDEX_LEN == 8
CHILD_LEN == 5

StructError == [err |-> "struct.error"]
IsError(r) == "err" \in DOMAIN r

\* struct.pack of one 'I' field under the '<' prefix of the three FORMATs
PackI(n) ==
    << n % 256, (n \div 256) % 256, (n \div 65536) % 256, (n \div 16777216) % 256 >>

\* struct.unpack of one 'I' field under the '<' prefix
UnpackI(b) == b[1] + 256 * b[2] + 65536 * b[3] + 16777216 * b[4]

\* the same field under a '>' prefix (what the comments in serialize describe)
PackBigEndian(n) ==
    << (n \div 16777216) % 256, (n \div 65536) % 256, (n \div 256) % 256, n % 256 >>

\* variant: a short buffer is read as if zero bytes followed it
UnpackIIBad(b) ==
    LET z == b \o <<0, 0, 0, 0, 0, 0, 0, 0>>
    IN  [a |-> UnpackI(SubSeq(z, 1, 4)), b |-> UnpackI(SubSeq(z, 5, 8))]

\* struct.unpack(fmt, b): struct.error unless len(b) == calcsize(fmt)
UnpackII(b) ==
    IF Len(b) # HEADER_LEN THEN StructError
    ELSE [a |-> UnpackI(SubSeq(b, 1, 4)), b |-> UnpackI(SubSeq(b, 5, 8))]

UnpackCI(b) ==
    IF Len(b) # CHILD_LEN THEN StructError
    ELSE [c |-> Chr(b[1]), off |-> UnpackI(SubSeq(b, 2, 5))]

PackII(x, y) == PackI(x) \o PackI(y)
PackCI(c, off) == <<Ord(c)>> \o PackI(off)

\* SeekFile.seek(pos) followed by SeekFile.read(n): short at end of file
Read(f, pos, n) == SubSeq(f, pos + 1, Min(pos + n, Len(f)))

\* bytes slice b[lo:hi]
Slice(b, lo, hi) == SubSeq(b, lo + 1, Min(hi, Len(b)))

Zeros(n) == [i \in 1..n |-> 0]

\* SeekFile.write_at_offset on an 'rb+' file: overwrite in place, extend at end
WriteAtOffset(f, offset, data) ==
    LET newLen == IF offset + Len(data) > Len(f) THEN offset + Len(data) ELSE Len(f)
    IN  [i \in 1..newLen |->
            IF i > offset /\ i <= offset + Len(data) THEN data[i - offset]
            ELSE IF i <= Len(f) THEN f[i]
            ELSE 0]

\* ------------------------------------------------------------------ build
NewNode == [indexes |-> <<>>, children |-> <<>>]

HasChild(node, char) == \E i \in 1..Len(node.children) : node.children[i] = char

\* body of the for loop of insert_suffix, from current_node = cur
RECURSIVE InsertFrom(_, _, _, _, _)
InsertFrom(t, cur, suffix, index, depth) ==
    IF suffix = <<>> THEN t
    ELSE LET char  == Head(suffix)
             child == Append(cur, char)
             t1 == IF HasChild(t[cur], char) THEN t
                   ELSE [t EXCEPT ![cur].children = Append(@, char)] @@ (child :> NewNode)
             t2 == [t1 EXCEPT ![child].indexes = Append(@, <<index, depth>>)]
         IN  InsertFrom(t2, child, Tail(suffix), index, depth + 1)

\* variant: depth counted from 0 instead of from index
InsertSuffixDepthZero(t, suffix, index) == InsertFrom(t, <<>>, suffix, index, 0)

\* insert_suffix(suffix, index): current_node = root, depth = index
InsertSuffix(t, suffix, index) == InsertFrom(t, <<>>, suffix, index, index)

RECURSIVE BuildFrom(_, _, _)
BuildFrom(t, txt, i) ==
    IF i >= Len(txt) THEN t
    ELSE BuildFrom(InsertSuffix(t, SubSeq(txt, i + 1, Len(txt)), i), txt, i + 1)

BuildSuffixTree(txt) == BuildFrom(<<>> :> NewNode, txt, 0)

\* MemorySuffixTree.__init__: "if text:" is false for the empty string
MemorySuffixTree(txt) == IF txt # <<>> THEN BuildSuffixTree(txt) ELSE None

\* ----------------------------------------------------------------- encode
\* variant: each pair packed as (end, start)
RECURSIVE IndicesBytesSwapped(_)
IndicesBytesSwapped(indexes) ==
    IF indexes = <<>> THEN <<>>
    ELSE PackII(Head(indexes)[2], Head(indexes)[1]) \o IndicesBytesSwapped(Tail(indexes))

\* indices_bytes: struct.pack(INDICES_FORMAT, start, end) of each pair in order
RECURSIVE IndicesBytes(_)
IndicesBytes(indexes) ==
    IF indexes = <<>> THEN <<>>
    ELSE PackII(Head(indexes)[1], Head(indexes)[2]) \o IndicesBytes(Tail(indexes))

HeaderBytes(node) == PackII(Len(node.indexes), Len(node.children))

\* variant: the child table left out of the record length
ThisLengthNoChildren(node) == HEADER_LEN + Len(node.indexes) * INDEX_LEN

\* this_length
ThisLength(node) ==
    HEADER_LEN + Len(node.indexes) * INDEX_LEN + Len(node.children) * CHILD_LEN

\* ----------------------------------------------------------------- decode
\* the "for i in range(num_indices)" loop: unpack of each INDEX_LEN slice
RECURSIVE UnpackIndices(_, _, _)
UnpackIndices(indices_bytes, i, num_indices) ==
    IF i >= num_indices THEN [indexes |-> <<>>]
    ELSE LET t == UnpackII(Slice(indices_bytes, i * INDEX_LEN, i * INDEX_LEN + INDEX_LEN))
         IN  IF IsError(t) THEN t
             ELSE LET rest == UnpackIndices(indices_bytes, i + 1, num_indices)
                  IN  IF IsError(rest) THEN rest
                      ELSE [indexes |-> <<(<<t.a, t.b>>)>> \o rest.indexes]

\* the "for i in range(num_children)" loop of deserialize_with_offsets
RECURSIVE UnpackChildren(_, _, _)
UnpackChildren(children_bytes, i, num_children) ==
    IF i >= num_children THEN [children |-> <<>>]
    ELSE LET t == UnpackCI(Slice(children_bytes, i * CHILD_LEN, i * CHILD_LEN + CHILD_LEN))
         IN  IF IsError(t) THEN t
             ELSE LET rest == UnpackChildren(children_bytes, i + 1, num_children)
                  IN  IF IsError(rest) THEN rest
                      ELSE [children |-> <<(<<t.c, t.off>>)>> \o rest.children]

\* variant: the occurrence table read from start_position, not after the header
DeserializeIndicesAtStart(f, start_position) ==
    LET h == UnpackII(Read(f, start_position, HEADER_LEN))
    IN  IF IsError(h) THEN h
        ELSE LET indices_len   == h.a * INDEX_LEN
                 ix == UnpackIndices(Read(f, start_position, indices_len), 0, h.a)
                 children_start == start_position + HEADER_LEN + indices_len
                 ch == UnpackChildren(Read(f, children_start, h.b * CHILD_LEN), 0, h.b)
             IN  IF IsError(ix) THEN ix
                 ELSE IF IsError(ch) THEN ch
                 ELSE [indexes |-> ix.indexes, children |-> ch.children]

\* deserialize_with_offsets: the node at start_position, children left as
\* <<transition, offset>> entries in table order
DeserializeWithOffsets(f, start_position) ==
    LET h == UnpackII(Read(f, start_position, HEADER_LEN))
    IN  IF IsError(h) THEN h
        ELSE LET indices_start == start_position + HEADER_LEN
                 indices_len   == h.a * INDEX_LEN
                 ix == UnpackIndices(Read(f, indices_start, indices_len), 0, h.a)
                 children_start == indices_start + indices_len
                 ch == UnpackChildren(Read(f, children_start, h.b * CHILD_LEN), 0, h.b)
             IN  IF IsError(ix) THEN ix
                 ELSE IF IsError(ch) THEN ch
                 ELSE [indexes |-> ix.indexes, children |-> ch.children]

\* dict semantics of output_node.children[transition] = target_offset
Keys(children) == {children[i][1] : i \in 1..Len(children)}

Lookup(children, char) ==
    LET last == CHOOSE i \in 1..Len(children) :
                    /\ children[i][1] = char
                    /\ \A j \in (i + 1)..Len(children) : children[j][1] # char
    IN  children[last][2]

\* keys of a dict filled in table order: a repeated key keeps its first place
RECURSIVE DictKeys(_)
DictKeys(children) ==
    IF children = <<>> THEN <<>>
    ELSE LET front == DictKeys(SubSeq(children, 1, Len(children) - 1))
             k     == children[Len(children)][1]
         IN  IF k \in Range(front) THEN front ELSE Append(front, k)

\* deserialize_whole_tree at start_position; the decoded node is stored under
\* `path`, its subtrees under the extensions of `path`
RECURSIVE DeserializeWholeTree(_, _, _)
RECURSIVE DecodeSubtrees(_, _, _, _)
DecodeSubtrees(f, path, children, i) ==
    IF i > Len(children) THEN [nodes |-> << >>]
    ELSE LET sub == DeserializeWholeTree(f, children[i][2], Append(path, children[i][1]))
         IN  IF IsError(sub) THEN sub
             ELSE LET rest == DecodeSubtrees(f, path, children, i + 1)
                  IN  IF IsError(rest) THEN rest
                      ELSE [nodes |-> rest.nodes @@ sub.nodes]

DeserializeWholeTree(f, start_position, path) ==
    LET n == DeserializeWithOffsets(f, start_position)
    IN  IF IsError(n) THEN n
        ELSE LET subs == DecodeSubtrees(f, path, n.children, 1)
             IN  IF IsError(subs) THEN subs
                 ELSE [nodes |-> (path :> [indexes  |-> n.indexes,
                                           children |-> DictKeys(n.children)])
                                 @@ subs.nodes]

\* ------------------------------------------------------- text reconstruction
StartsAtZero(indexes) == \E i \in 1..Len(indexes) : indexes[i][1] = 0

RECURSIVE FindLongestChildString(_, _)
FindLongestChildString(t, path) ==
    IF ~StartsAtZero(t[path].indexes) THEN <<>>
    ELSE LET ch   == t[path].children
             hits == {i \in 1..Len(ch) : StartsAtZero(t[Append(path, ch[i])].indexes)}
         IN  IF hits = {} THEN <<>>
             ELSE LET first == CHOOSE i \in hits : \A j \in hits : i <= j
                  IN  <<ch[first]>> \o FindLongestChildString(t, Append(path, ch[first]))

\* ---------------------------------------------------------- in-memory search
RECURSIVE SearchFrom(_, _, _)
SearchFrom(t, cur, pattern) ==
    IF pattern = <<>> THEN t[cur].indexes
    ELSE IF ~HasChild(t[cur], Head(pattern)) THEN <<>>
    ELSE SearchFrom(t, Append(cur, Head(pattern)), Tail(pattern))

\* -------------------------------------------------------------------- state
VARIABLES
    pc,            \* "new", "built", "serializing", "serialized", "failed"
    text,          \* MemorySuffixTree.text
    root,          \* MemorySuffixTree.root: the tree, or None
    file,          \* the bytes of the tree file
    stack,         \* active calls of SuffixTreeNode.serialize, innermost last
    writes,        \* the write_at_offset calls made so far, in order
    ret,           \* value returned by root.serialize; -1 before it returns
    op,            \* operation in progress or last finished
    opstate,       \* "idle", "running", "returned", "raised"
    pattern,       \* argument of the search
    consumed,      \* pattern characters consumed by FileSuffixTree.search
    current_node,  \* current_node of FileSuffixTree.search
    decodes,       \* start positions of the deserialize_with_offsets calls
    result,        \* list returned by the search
    droot,         \* root of the tree returned by MemorySuffixTree.deserialize
    dtext,         \* its .text
    error,         \* exception raised, "" if none
    truncated      \* the file was cut short after it was written

vars == << pc, text, root, file, stack, writes, ret, op, opstate, pattern,
           consumed, current_node, decodes, result, droot, dtext, error, truncated >>

serVars == << file, stack, writes, ret >>
opVars  == << op, opstate, pattern, consumed, current_node, decodes, result,
              droot, dtext, error >>

Init ==
    /\ pc = "new"
    /\ text = <<>>
    /\ root = None
    /\ file = <<>>
    /\ stack = <<>>
    /\ writes = <<>>
    /\ ret = -1
    /\ op = "none"
    /\ opstate = "idle"
    /\ pattern = <<>>
    /\ consumed = 0
    /\ current_node = NewNode
    /\ decodes = <<>>
    /\ result = <<>>
    /\ droot = None
    /\ dtext = <<>>
    /\ error = ""
    /\ truncated = FALSE

\* MemorySuffixTree(text)
MemInit(txt) ==
    /\ pc = "new"
    /\ pc' = "built"
    /\ text' = txt
    /\ root' = MemorySuffixTree(txt)
    /\ UNCHANGED << serVars, opVars, truncated >>

\* ---------------------------------------------------------------- serialize
\* entry of SuffixTreeNode.serialize(file, offset) up to the placeholder write
Frame(path, offset) ==
    [node |-> path, offset |-> offset,
     next_end_position |-> offset + ThisLength(root[path]),
     children_bytes |-> <<>>, i |-> 0]

Placeholder(path, offset) ==
    [kind |-> "placeholder", node |-> path, offset |-> offset,
     len |-> ThisLength(root[path]), returned |-> -1]

\* MemorySuffixTree.serialize_to_bytes: fresh empty file, then root.serialize(file, 0)
SerializeToBytes ==
    /\ pc = "built"
    /\ opstate = "idle"
    /\ IF root = None
       THEN /\ pc' = "failed"
            /\ file' = <<>>
            /\ error' = "AttributeError"
            /\ UNCHANGED << stack, writes >>
       ELSE /\ pc' = "serializing"
            /\ file' = WriteAtOffset(<<>>, 0, Zeros(ThisLength(root[<<>>])))
            /\ stack' = << Frame(<<>>, 0) >>
            /\ writes' = << Placeholder(<<>>, 0) >>
            /\ UNCHANGED error
    /\ UNCHANGED << text, root, ret, op, opstate, pattern, consumed, current_node,
                    decodes, result, droot, dtext, truncated >>

Top == stack[Len(stack)]

\* variant: the child is started at its parent's own offset
ChildOffsetAtParent(frame) == frame.offset

\* where the loop of serialize starts the next child
ChildOffset(frame) == frame.next_end_position

\* child.serialize(file, next_end_position) for the next child of the innermost call
SerializeChild ==
    /\ pc = "serializing"
    /\ Top.i < Len(root[Top.node].children)
    /\ LET child == Append(Top.node, root[Top.node].children[Top.i + 1])
           off   == ChildOffset(Top)
       IN  /\ file' = WriteAtOffset(file, off, Zeros(ThisLength(root[child])))
           /\ stack' = Append(stack, Frame(child, off))
           /\ writes' = Append(writes, Placeholder(child, off))
    /\ UNCHANGED << pc, text, root, ret, opVars, truncated >>

\* header_bytes + indices_bytes + children_bytes of a finished call
Serialized(frame) ==
    HeaderBytes(root[frame.node]) \o IndicesBytes(root[frame.node].indexes)
        \o frame.children_bytes

\* the innermost call has serialized all its children: it writes its record and
\* returns next_end_position; its caller records the child's offset and goes on
SerializeReturn ==
    /\ pc = "serializing"
    /\ Top.i = Len(root[Top.node].children)
    /\ file' = WriteAtOffset(file, Top.offset, Serialized(Top))
    /\ writes' = Append(writes, [kind |-> "record", node |-> Top.node,
                                 offset |-> Top.offset, len |-> Len(Serialized(Top)),
                                 returned |-> Top.next_end_position])
    /\ IF Len(stack) = 1
       THEN /\ stack' = <<>>
            /\ ret' = Top.next_end_position
            /\ pc' = "serialized"
       ELSE LET caller == stack[Len(stack) - 1]
                transition == root[caller.node].children[caller.i + 1]
            IN  /\ stack' = Append(SubSeq(stack, 1, Len(stack) - 2),
                               [caller EXCEPT
                                  !.children_bytes =
                                      @ \o PackCI(transition, caller.next_end_position),
                                  !.next_end_position = Top.next_end_position,
                                  !.i = @ + 1])
                /\ UNCHANGED << ret, pc >>
    /\ UNCHANGED << text, root, opVars, truncated >>

\* ------------------------------------------------------------------- search
\* The operations below read root and file and change neither, so a behaviour
\* runs one of them (opstate = "idle" before it) after the build or the
\* serialization: a second one would start from the same root and file.
\* MemorySuffixTree.search(pattern)
MemSearch(p) ==
    /\ pc \in {"built", "serialized"}
    /\ opstate = "idle"
    /\ op' = "MemorySuffixTree.search"
    /\ pattern' = p
    /\ IF root = None
       THEN /\ opstate' = "raised"
            /\ error' = "AttributeError"
            /\ result' = <<>>
       ELSE /\ opstate' = "returned"
            /\ error' = ""
            /\ result' = SearchFrom(root, <<>>, p)
    /\ consumed' = 0
    /\ current_node' = NewNode
    /\ decodes' = <<>>
    /\ droot' = None
    /\ dtext' = <<>>
    /\ UNCHANGED << pc, text, root, serVars, truncated >>

\* variant: the node is read a second time
DecodeTwice(position, used) ==
    /\ decodes' = decodes \o << position, position >>
    /\ LET n == DeserializeWithOffsets(file, position)
       IN  IF IsError(n)
           THEN /\ opstate' = "raised"
                /\ error' = n.err
                /\ UNCHANGED << current_node, consumed >>
           ELSE /\ opstate' = "running"
                /\ error' = ""
                /\ current_node' = n
                /\ consumed' = used

\* the decode a step of FileSuffixTree.search makes, and what the step leaves
Decode(position, used) ==
    /\ decodes' = Append(decodes, position)
    /\ LET n == DeserializeWithOffsets(file, position)
       IN  IF IsError(n)
           THEN /\ opstate' = "raised"
                /\ error' = n.err
                /\ UNCHANGED << current_node, consumed >>
           ELSE /\ opstate' = "running"
                /\ error' = ""
                /\ current_node' = n
                /\ consumed' = used

\* FileSuffixTree.search(pattern): open the file, decode the root at offset 0
FileSearchStart(p) ==
    /\ pc = "serialized"
    /\ opstate = "idle"
    /\ op' = "FileSuffixTree.search"
    /\ pattern' = p
    /\ result' = <<>>
    /\ droot' = None
    /\ dtext' = <<>>
    /\ decodes' = << 0 >>
    /\ LET n == DeserializeWithOffsets(file, 0)
       IN  IF IsError(n)
           THEN /\ opstate' = "raised"
                /\ error' = n.err
                /\ current_node' = NewNode
           ELSE /\ opstate' = "running"
                /\ error' = ""
                /\ current_node' = n
    /\ consumed' = 0
    /\ UNCHANGED << pc, text, root, serVars, truncated >>

\* one iteration of "for char in pattern"
FileSearchStep ==
    /\ op = "FileSuffixTree.search"
    /\ opstate = "running"
    /\ consumed < Len(pattern)
    /\ LET char == pattern[consumed + 1]
       IN  IF char \notin Keys(current_node.children)
           THEN /\ opstate' = "returned"
                /\ result' = <<>>
                /\ UNCHANGED << current_node, consumed, decodes, error >>
           ELSE /\ Decode(Lookup(current_node.children, char), consumed + 1)
                /\ UNCHANGED result
    /\ UNCHANGED << pc, text, root, serVars, op, pattern, droot, dtext, truncated >>

\* the loop is over: return current_node.indexes
FileSearchReturn ==
    /\ op = "FileSuffixTree.search"
    /\ opstate = "running"
    /\ consumed = Len(pattern)
    /\ opstate' = "returned"
    /\ result' = current_node.indexes
    /\ UNCHANGED << pc, text, root, serVars, op, pattern, consumed, current_node,
                    decodes, droot, dtext, error, truncated >>

\* MemorySuffixTree.deserialize(file)
Deserialize ==
    /\ pc = "serialized"
    /\ opstate = "idle"
    /\ op' = "MemorySuffixTree.deserialize"
    /\ LET t == DeserializeWholeTree(file, 0, <<>>)
       IN  IF IsError(t)
           THEN /\ opstate' = "raised"
                /\ error' = t.err
                /\ droot' = None
                /\ dtext' = <<>>
           ELSE /\ opstate' = "returned"
                /\ error' = ""
                /\ droot' = t.nodes
                /\ dtext' = FindLongestChildString(t.nodes, <<>>)
    /\ pattern' = <<>>
    /\ consumed' = 0
    /\ current_node' = NewNode
    /\ decodes' = <<>>
    /\ result' = <<>>
    /\ UNCHANGED << pc, text, root, serVars, truncated >>

\* the environment cuts the stored file to its first k bytes
Truncate(k) ==
    /\ pc = "serialized"
    /\ opstate = "idle"
    /\ ~truncated
    /\ k < Len(file)
    /\ file' = SubSeq(file, 1, k)
    /\ truncated' = TRUE
    /\ UNCHANGED << pc, text, root, stack, writes, ret, opVars >>

\* ------------------------------------------------------------ specifications
Next ==
    \/ \E txt \in Texts : MemInit(txt)
    \/ SerializeToBytes
    \/ SerializeChild
    \/ SerializeReturn
    \/ \E p \in Patterns : MemSearch(p)
    \/ \E p \in Patterns : FileSearchStart(p)
    \/ FileSearchStep
    \/ FileSearchReturn
    \/ Deserialize

Spec == Init /\ [][Next]_vars

\* the same program over a file that may have been cut short
NextTrunc ==
    \/ \E txt \in TruncTexts : MemInit(txt)
    \/ SerializeToBytes
    \/ SerializeChild
    \/ SerializeReturn
    \/ \E k \in 0..Len(file) : Truncate(k)
    \/ \E p \in TruncPatterns : FileSearchStart(p)
    \/ FileSearchStep
    \/ FileSearchReturn
    \/ Deserialize

SpecTrunc == Init /\ [][NextTrunc]_vars

\* ------------------------------------------------------------------ claims
Returned(o) == op = o /\ opstate = "returned"
Finished(o) == op = o /\ opstate \in {"returned", "raised"}

\* text[i : i + len(p)] == p
MatchesAt(txt, p, i) ==
    i + Len(p) <= Len(txt) /\ SubSeq(txt, i + 1, i + Len(p)) = p

Occurrences(txt, p) ==
    {<<i, i + Len(p) - 1>> : i \in {j \in 0..(Len(txt) - 1) : MatchesAt(txt, p, j)}}

IsProperPrefix(p, q) == Len(p) < Len(q) /\ SubSeq(q, 1, Len(p)) = p
IsPrefix(p, q) == Len(p) <= Len(q) /\ SubSeq(q, 1, Len(p)) = p

\* record size as the format table gives it
RecordSize(node) == 8 + 8 * Len(node.indexes) + 5 * Len(node.children)

RECURSIVE SumSizes(_)
SumSizes(paths) ==
    IF paths = {} THEN 0
    ELSE LET p == CHOOSE x \in paths : TRUE
         IN  RecordSize(root[p]) + SumSizes(paths \ {p})

Subtree(path) == {q \in DOMAIN root : IsPrefix(path, q)}

PlaceholderIdx(path) ==
    {i \in 1..Len(writes) : writes[i].kind = "placeholder" /\ writes[i].node = path}
RecordIdx(path) ==
    {i \in 1..Len(writes) : writes[i].kind = "record" /\ writes[i].node = path}
Placed == {writes[i].node : i \in {j \in 1..Len(writes) : writes[j].kind = "placeholder"}}
Recorded == {writes[i].node : i \in {j \in 1..Len(writes) : writes[j].kind = "record"}}
OffsetOf(path) == writes[CHOOSE i \in PlaceholderIdx(path) : TRUE].offset
ReturnedOf(path) == writes[CHOOSE i \in RecordIdx(path) : TRUE].returned

\* C4: an in-memory search for a non-empty pattern returns exactly the pairs
\* (i, i+|P|-1) of the positions i where P occurs in the text (every occurrence
\* is returned, every returned pair is an occurrence of length >= |P|), and for
\* the text GCAA the patterns GCAA, CA, A, AT give [(0,3)], [(1,2)],
\* [(2,2),(3,3)], [].
C4_SearchIsOccurrenceSet ==
    (Returned("MemorySuffixTree.search") /\ pattern # <<>>) =>
        /\ \A i \in 0..(Len(text) - 1) :
               MatchesAt(text, pattern, i) => <<i, i + Len(pattern) - 1>> \in Range(result)
        /\ \A k \in 1..Len(result) :
               /\ MatchesAt(text, pattern, result[k][1])
               /\ result[k][2] - result[k][1] + 1 >= Len(pattern)
        /\ (Occurrences(text, pattern) = {}) => result = <<>>
        /\ text = ScenarioText =>
               /\ pattern = <<"G", "C", "A", "A">> => result = << <<0, 3>> >>
               /\ pattern = <<"C", "A">> => result = << <<1, 2>> >>
               /\ pattern = <<"A">> => result = << <<2, 2>>, <<3, 3>> >>
               /\ pattern = <<"A", "T">> => result = <<>>

C4_Witness ==
    /\ Returned("MemorySuffixTree.search")
    /\ text = ScenarioText
    /\ pattern = <<"A">>
    /\ result = << <<2, 2>>, <<3, 3>> >>

\* C1: on the file written by serialize_to_bytes, the lazy search of any
\* pattern returns (it does not raise) the same set of pairs as the in-memory
\* search of the same pattern on the tree that was serialized.
C1_LazyEagerEquivalence ==
    (Finished("FileSuffixTree.search") /\ ~truncated) =>
        /\ opstate = "returned"
        /\ Range(result) = Range(SearchFrom(root, <<>>, pattern))

C1_Witness ==
    /\ Returned("FileSuffixTree.search")
    /\ ~truncated
    /\ Len(pattern) = 2
    /\ Len(result) = 2
    /\ Range(result) = Occurrences(text, pattern)

\* C3: the tree decoded by deserialize_whole_tree at offset 0 from the written
\* file has the same nodes, each with the same children keys in the same order
\* and the same occurrence list, as the tree that was built; so every pattern
\* no longer than the text gets the same list from both.
C3_RoundTrip ==
    (Finished("MemorySuffixTree.deserialize") /\ ~truncated) =>
        /\ opstate = "returned"
        /\ droot = root
        /\ \A p \in Patterns :
               Len(p) <= Len(text) =>
                   SearchFrom(droot, <<>>, p) = SearchFrom(root, <<>>, p)

C3_Witness ==
    /\ Returned("MemorySuffixTree.deserialize")
    /\ text = ScenarioText
    /\ Cardinality(DOMAIN droot) = 10
    /\ droot[<<"A">>] = [indexes |-> << <<2, 2>>, <<3, 3>> >>, children |-> <<"A">>]

\* C2: the text recovered by find_longest_child_string from the decoded root
\* is the text the tree was built from.
C2_TextReconstruction ==
    Returned("MemorySuffixTree.deserialize") => dtext = text

\* C5: building from the empty text gives a root node with no children and an
\* empty occurrence list.
C5_EmptyTextRoot ==
    (pc # "new" /\ text = <<>>) =>
        /\ root # None
        /\ DOMAIN root = {<<>>}
        /\ root[<<>>] = [indexes |-> <<>>, children |-> <<>>]

\* the child table a finished record of `path` must hold: each transition with
\* the offset at which that child was placed
ExpectedChildren(path) ==
    [k \in 1..Len(root[path].children) |->
        << root[path].children[k], OffsetOf(Append(path, root[path].children[k])) >>]

\* the record of `path` with every integer field most significant byte first
RECURSIVE BigEndianIndices(_)
BigEndianIndices(indexes) ==
    IF indexes = <<>> THEN <<>>
    ELSE PackBigEndian(Head(indexes)[1]) \o PackBigEndian(Head(indexes)[2])
             \o BigEndianIndices(Tail(indexes))

RECURSIVE BigEndianChildren(_)
BigEndianChildren(children) ==
    IF children = <<>> THEN <<>>
    ELSE <<Ord(Head(children)[1])>> \o PackBigEndian(Head(children)[2])
             \o BigEndianChildren(Tail(children))

BigEndianRecord(path) ==
    PackBigEndian(Len(root[path].indexes)) \o PackBigEndian(Len(root[path].children))
        \o BigEndianIndices(root[path].indexes)
        \o BigEndianChildren(ExpectedChildren(path))

\* C6: every record written by serialize holds its header, its occurrence
\* entries and its child offsets as big-endian unsigned 32-bit values, in the
\* layout header, N x 8 bytes, M x 5 bytes.
C6_BigEndianRecords ==
    (opstate = "idle" /\ ~truncated) =>
        \A n \in Recorded :
            SubSeq(file, OffsetOf(n) + 1, OffsetOf(n) + RecordSize(root[n]))
                = BigEndianRecord(n)

\* C8: the root is placed at offset 0; before any write for a node, the
\* placeholder of each of its proper ancestors has been written with the
\* ancestor's full record length, and it stays zero until the ancestor's record
\* is written; a node's record is written only after the records of all its
\* descendants; every child offset in a written record is the child's own
\* offset and is >= here + L, so greater than here.
C8_ForwardOnlyWriteOrder ==
    (opstate = "idle" /\ ~truncated) =>
        /\ writes # <<>> =>
               /\ writes[1].kind = "placeholder"
               /\ writes[1].node = <<>>
               /\ writes[1].offset = 0
        /\ \A j \in 1..Len(writes) : \A a \in DOMAIN root :
               IsProperPrefix(a, writes[j].node) =>
                   \E i \in 1..(j - 1) :
                       /\ writes[i].kind = "placeholder"
                       /\ writes[i].node = a
                       /\ writes[i].len = RecordSize(root[a])
        /\ \A n \in Placed \ Recorded :
               /\ Len(file) >= OffsetOf(n) + RecordSize(root[n])
               /\ \A b \in (OffsetOf(n) + 1)..(OffsetOf(n) + RecordSize(root[n])) :
                      file[b] = 0
        /\ \A j \in 1..Len(writes) :
               writes[j].kind = "record" =>
                   \A d \in Subtree(writes[j].node) \ {writes[j].node} :
                       \E i \in 1..(j - 1) :
                           writes[i].kind = "record" /\ writes[i].node = d
        /\ \A n \in Recorded :
               LET rec == DeserializeWithOffsets(file, OffsetOf(n))
               IN  /\ ~IsError(rec)
                   /\ Len(rec.children) = Len(root[n].children)
                   /\ \A k \in 1..Len(rec.children) :
                          /\ rec.children[k][2] >= OffsetOf(n) + RecordSize(root[n])
                          /\ rec.children[k][2] > OffsetOf(n)
                          /\ rec.children[k][2]
                                 = OffsetOf(Append(n, root[n].children[k]))

C8_Witness ==
    /\ pc = "serializing"
    /\ text = ScenarioText
    /\ <<"G", "C">> \in Recorded
    /\ <<"G">> \in Placed \ Recorded
    /\ OffsetOf(<<"G", "C">>) = 44

\* C9: serialize of a node returns its offset plus the record sizes
\* (8 + 8*occurrences + 5*children) of its whole subtree; records of distinct
\* nodes do not overlap; a finished subtree lies inside [offset, returned), so
\* with the two facts before it fills that range without gaps; every written
\* record still reads back as that node's occurrence list and child table
\* whatever was written after it; and when serialize_to_bytes is done the file
\* length is the value returned for the root.
C9_RegionsTileFile ==
    (opstate = "idle" /\ ~truncated) =>
        /\ \A n \in Recorded :
               ReturnedOf(n) = OffsetOf(n) + SumSizes(Subtree(n))
        /\ \A n \in Placed : \A m \in Placed :
               n # m =>
                   \/ OffsetOf(n) + RecordSize(root[n]) <= OffsetOf(m)
                   \/ OffsetOf(m) + RecordSize(root[m]) <= OffsetOf(n)
        /\ \A n \in Recorded : \A d \in Subtree(n) :
               /\ d \in Recorded
               /\ OffsetOf(n) <= OffsetOf(d)
               /\ OffsetOf(d) + RecordSize(root[d]) <= ReturnedOf(n)
        /\ \A n \in Recorded :
               DeserializeWithOffsets(file, OffsetOf(n))
                   = [indexes |-> root[n].indexes, children |-> ExpectedChildren(n)]
        /\ pc = "serialized" =>
               /\ Recorded = DOMAIN root
               /\ ret = SumSizes(DOMAIN root)
               /\ Len(file) = ret

C9_Witness ==
    /\ pc = "serialized"
    /\ opstate = "idle"
    /\ text = ScenarioText
    /\ ret = 205
    /\ Len(file) = 205
    /\ OffsetOf(<<"C">>) = 102

\* longest prefix of the pattern that spells a path of the tree
MatchLen ==
    CHOOSE k \in 0..Len(pattern) :
        /\ SubSeq(pattern, 1, k) \in DOMAIN root
        /\ \A j \in (k + 1)..Len(pattern) : SubSeq(pattern, 1, j) \notin DOMAIN root

\* state part of C10: what the search has decoded so far
C10_ReadSequence ==
    (op = "FileSuffixTree.search" /\ opstate # "idle" /\ ~truncated) =>
        /\ Len(decodes) >= 1
        /\ decodes[1] = 0
        /\ Len(decodes) <= Len(pattern) + 1
        /\ Len(decodes) = consumed + 1
        /\ \A k \in 2..Len(decodes) :
               /\ SubSeq(pattern, 1, k - 1) \in DOMAIN root
               /\ decodes[k] = OffsetOf(SubSeq(pattern, 1, k - 1))
        /\ opstate = "returned" =>
               /\ Len(decodes) = MatchLen + 1
               /\ MatchLen < Len(pattern) => result = <<>>

\* C10: the lazy search decodes the node at offset 0, then for each pattern
\* character in order exactly one node, at the offset stored for that character
\* (the node of the path spelled so far); at the first absent character it
\* returns the empty list without another decode; so at most |P|+1 decodes; and
\* no step of the search changes the file.
C10_LazyReadSequence ==
    /\ []C10_ReadSequence
    /\ [][op' = "FileSuffixTree.search" => (file' = file /\ writes' = writes)]_vars

C10_Witness ==
    /\ Returned("FileSuffixTree.search")
    /\ Len(pattern) = 3
    /\ Len(decodes) = 2
    /\ <<pattern[1]>> \in DOMAIN root
    /\ decodes = << 0, OffsetOf(<<pattern[1]>>) >>
    /\ result = <<>>

\* bytes left at pos are fewer than the header, or than the record the header
\* at pos declares
ShortAt(f, pos) ==
    \/ Len(f) - pos < 8
    \/ Len(f) - pos < 8 + 8 * UnpackI(SubSeq(f, pos + 1, pos + 4))
                        + 5 * UnpackI(SubSeq(f, pos + 5, pos + 8))

====
